---- MODULE Spec2Model ----
(***************************************************************************)
(* A model of the yal interpreter (GabrielDertoni/yal): the Environment    *)
(* (src/src/evaluator.rs), the recursive evaluate / call pair, the native  *)
(* routines of src/src/std_lib.rs and the driver loop of src/src/main.rs.  *)
(*                                                                         *)
(* evaluate is recursive in the source.  Here it is a machine with an      *)
(* explicit continuation stack `kont`: one frame per active evaluate of a  *)
(* list (holding the local vector `values`) and one per active call of a   *)
(* user-defined function.  `ctrl` is the position of the innermost active  *)
(* invocation: about to evaluate an expression, returning Ok(value),       *)
(* returning Err(message), about to apply, or about to enter call.         *)
(***************************************************************************)
EXTENDS Integers, Sequences, FiniteSets, TLC

VARIABLES
    variables,  \* Environment.variables : HashMap<String, Vec<RefVal>>
    stack,      \* Environment.stack     : Vec<RefVal>
    ctrl,       \* position of the innermost active invocation
    kont,       \* the suspended invocations of evaluate and call, outermost first
    cur,        \* main: the loop variable `expr`
    done,       \* main: how many top-level forms the loop has taken
    main,       \* main: "loop", "returned_ok", "returned_err" or "panicked"
    nextPtr,    \* the next fresh Rc allocation address handed to a Function
    output,     \* what println! has written to standard output
    reader      \* main: the source text and what Reader made of it

vars == <<variables, stack, ctrl, kont, cur, done, main, nextPtr, output, reader>>

(***************************************************************************)
(* Bounds of the model.                                                    *)
(***************************************************************************)
MaxForms == 2   \* top-level forms per run
MaxDepth == 6   \* suspended invocations (the host call stack)

(***************************************************************************)
(* ast.rs: SExpr and Atom.  SExpr::Atom(Atom::X(..)) is the record with    *)
(* t = "X"; SExpr::List(..) is the record with t = "List".  The tag t is   *)
(* named before the payload v, and the kind k of a value before its v, so  *)
(* that TLC orders two records by tag before it looks at the payloads.     *)
(***************************************************************************)
Ident(s)  == [t |-> "Ident",  v |-> s]
NumLit(n) == [t |-> "Number", v |-> n]
StrLit(s) == [t |-> "String", v |-> s]
Quote(e)  == [t |-> "Quote",  v |-> e]
List(es)  == [t |-> "List",   v |-> es]

(***************************************************************************)
(* f64.  A double is [s, n, d]: sign s, magnitude n/d in lowest terms.     *)
(* d = 0 with n = 1 is an infinity, d = 0 with n = 0 is NaN, n = 0 with    *)
(* d = 1 is a (signed) zero.  Rounding is not modelled: every number the   *)
(* bounded programs compute is kept exactly.                               *)
(***************************************************************************)
RECURSIVE Gcd(_, _)
Gcd(a, b) == IF b = 0 THEN a ELSE Gcd(b, a % b)

Abs(i) == IF i < 0 THEN -i ELSE i
Sgn(i) == IF i < 0 THEN -1 ELSE 1

NaN      == [s |-> 1, n |-> 0, d |-> 0]
Inf(s)   == [s |-> s, n |-> 1, d |-> 0]
Zero(s)  == [s |-> s, n |-> 0, d |-> 1]
F64(n)   == [s |-> 1, n |-> n, d |-> 1]
IsNaN(x)  == x.n = 0 /\ x.d = 0
IsInf(x)  == x.n # 0 /\ x.d = 0
IsZero(x) == x.n = 0 /\ x.d # 0

Ratio(s, n, d) ==
    IF n = 0 THEN Zero(s)
    ELSE LET g == Gcd(n, d) IN [s |-> s, n |-> n \div g, d |-> d \div g]

f64_neg(x) == IF IsNaN(x) THEN NaN ELSE [x EXCEPT !.s = -x.s]

f64_add(x, y) ==
    IF IsNaN(x) \/ IsNaN(y) THEN NaN
    ELSE IF IsInf(x) /\ IsInf(y) THEN (IF x.s = y.s THEN x ELSE NaN)
    ELSE IF IsInf(x) THEN x
    ELSE IF IsInf(y) THEN y
    ELSE LET num == x.s * x.n * y.d + y.s * y.n * x.d
             den == x.d * y.d
         IN  IF num = 0
             THEN (IF IsZero(x) /\ IsZero(y) /\ x.s = -1 /\ y.s = -1
                   THEN Zero(-1) ELSE Zero(1))
             ELSE Ratio(Sgn(num), Abs(num), den)

f64_sub(x, y) == f64_add(x, f64_neg(y))

f64_mul(x, y) ==
    IF IsNaN(x) \/ IsNaN(y) THEN NaN
    ELSE IF (IsInf(x) /\ IsZero(y)) \/ (IsZero(x) /\ IsInf(y)) THEN NaN
    ELSE IF IsInf(x) \/ IsInf(y) THEN Inf(x.s * y.s)
    ELSE Ratio(x.s * y.s, x.n * y.n, x.d * y.d)

f64_div(x, y) ==
    IF IsNaN(x) \/ IsNaN(y) THEN NaN
    ELSE IF (IsInf(x) /\ IsInf(y)) \/ (IsZero(x) /\ IsZero(y)) THEN NaN
    ELSE IF IsInf(x) \/ IsZero(y) THEN Inf(x.s * y.s)
    ELSE IF IsInf(y) THEN Zero(x.s * y.s)
    ELSE Ratio(x.s * y.s, x.n * y.d, x.d * y.n)

\* f64's PartialEq: NaN equals nothing, the two zeros are equal.
f64_eq(x, y) ==
    /\ ~IsNaN(x)
    /\ ~IsNaN(y)
    /\ (IsZero(x) /\ IsZero(y)) \/ x = y

(***************************************************************************)
(* ast.rs: Value, Function and RefVal.  A RefVal is [ref, ptr, k, v]: ref  *)
(* is "Borrowed" (a &'static Value) or "Owned" (an Rc), ptr the address    *)
(* as_ptr returns, k the Value's variant and v its payload.  Only          *)
(* Functions are compared by address, so the Rc of every other owned       *)
(* value has address 0.                                                    *)
(***************************************************************************)
owned(k, v) == [ref |-> "Owned", ptr |-> 0, k |-> k, v |-> v]
reference(static) == static

TRUE_PTR  == -1
FALSE_PTR == -2
NIL_PTR   == -3

TRUE_VAL  == [ref |-> "Borrowed", ptr |-> TRUE_PTR,  k |-> "Quote", v |-> Ident("true")]
FALSE_VAL == [ref |-> "Borrowed", ptr |-> FALSE_PTR, k |-> "Quote", v |-> Ident("false")]
NIL_VAL   == [ref |-> "Borrowed", ptr |-> NIL_PTR,   k |-> "Quote", v |-> Ident("nil")]

true_ref  == TRUE_VAL
false_ref == FALSE_VAL
nil_ref   == NIL_VAL

\* false turned into the NIL static
bool_into_nil(b) == IF b THEN reference(true_ref) ELSE reference(nil_ref)

\* impl Into<RefVal> for bool
bool_into(b) == IF b THEN reference(true_ref) ELSE reference(false_ref)

NoBody == List(<<>>)

Lib(name, arity, routine) ==
    [lib |-> TRUE, name |-> name, arity |-> arity, routine |-> routine,
     arg_names |-> <<>>, body |-> NoBody]

UserDefined(arg_names, body) ==
    [lib |-> FALSE, name |-> "", arity |-> 0, routine |-> "",
     arg_names |-> arg_names, body |-> body]

\* Function::arity
arity(fun) == IF fun.lib THEN fun.arity ELSE Len(fun.arg_names)

FunctionAt(ptr, fun) == [ref |-> "Owned", ptr |-> ptr, k |-> "Function", v |-> fun]

(***************************************************************************)
(* evaluator.rs: Environment.                                              *)
(***************************************************************************)
Some(x) == <<x>>
None    == <<>>

pop_stack(s) == [val |-> s[Len(s)], rest |-> SubSeq(s, 1, Len(s) - 1)]

push_stack(s, val) == Append(s, val)

register_external_fun(vs, name, n, routine, ptr) ==
    [x \in DOMAIN vs \cup {name} |->
        IF x = name THEN <<FunctionAt(ptr, Lib(name, n, routine))>> ELSE vs[x]]

bind_var(vs, name, val) ==
    IF name \in DOMAIN vs
    THEN [vs EXCEPT ![name] = Append(@, val)]
    ELSE [x \in DOMAIN vs \cup {name} |-> IF x = name THEN <<val>> ELSE vs[x]]

\* [ok, vs]: Ok(()) with the entry popped, or Err("variable not bound").
unbind_var(vs, name) ==
    IF name \in DOMAIN vs
    THEN [ok |-> TRUE,
          vs |-> IF Len(vs[name]) <= 1
                 THEN [x \in DOMAIN vs \ {name} |-> vs[x]]
                 ELSE [vs EXCEPT ![name] = SubSeq(@, 1, Len(@) - 1)]]
    ELSE [ok |-> FALSE, vs |-> vs]

lookup_var(vs, name) ==
    IF name \in DOMAIN vs /\ Len(vs[name]) > 0
    THEN Some(vs[name][Len(vs[name])])
    ELSE None

\* std_lib.rs calls env.register_var, which evaluator.rs does not define:
\* "bind ... in the current scope", done with the one binding operation the
\* Environment has.
register_var(vs, name, val) == bind_var(vs, name, val)

(***************************************************************************)
(* main.rs: the calls of register_external_fun, in order.  The i-th call   *)
(* allocates the Rc at address i.                                          *)
(***************************************************************************)
\* the registrations with `if` declared to take two operands
Registered_if2 ==
    << <<"let", 2, "let_impl">>,   <<"fn", 2, "fn_impl">>,
       <<"if", 2, "if_impl">>,     <<"eval", 1, "eval_impl">>,
       <<"cons", 2, "cons_impl">>, <<"car", 1, "car_impl">>,
       <<"cdr", 1, "cdr_impl">>,   <<"=", 2, "eq">>,
       <<"eq", 2, "eq">>,          <<"+", 2, "add">>,
       <<"-", 2, "sub">>,          <<"*", 2, "mul">>,
       <<"/", 2, "div">>,          <<"print", 1, "print_impl">> >>

Registered ==
    << <<"let", 2, "let_impl">>,   <<"fn", 2, "fn_impl">>,
       <<"if", 3, "if_impl">>,     <<"eval", 1, "eval_impl">>,
       <<"cons", 2, "cons_impl">>, <<"car", 1, "car_impl">>,
       <<"cdr", 1, "cdr_impl">>,   <<"=", 2, "eq">>,
       <<"eq", 2, "eq">>,          <<"+", 2, "add">>,
       <<"-", 2, "sub">>,          <<"*", 2, "mul">>,
       <<"/", 2, "div">>,          <<"print", 1, "print_impl">> >>

RECURSIVE RegisterAll(_, _)
RegisterAll(vs, i) ==
    IF i > Len(Registered) THEN vs
    ELSE RegisterAll(
            register_external_fun(vs, Registered[i][1], Registered[i][2],
                                  Registered[i][3], i),
            i + 1)

EmptyMap == [x \in {} |-> <<>>]

(***************************************************************************)
(* The machine's positions.                                                *)
(***************************************************************************)
Idle      == [m |-> "idle",  x |-> <<>>]
Eval(e)   == [m |-> "eval",  x |-> e]
Ok(val)   == [m |-> "ret",   x |-> val]
Err(msg)  == [m |-> "err",   x |-> msg]
Apply(vals) == [m |-> "apply", x |-> vals]
Call(fun) == [m |-> "call",  x |-> fun]
Panicked  == [m |-> "panic", x |-> <<>>]

ListFrame(elements, values) ==
    [k |-> "list", elements |-> elements, values |-> values]

\* call's locals arg_names and body.  `saved` is a history field: the bindings
\* as they were when the call began.
CallFrame(arg_names, body, saved) ==
    [k |-> "call", arg_names |-> arg_names, body |-> body, saved |-> saved]

Top(s)  == s[Len(s)]
Pop(s)  == SubSeq(s, 1, Len(s) - 1)

(***************************************************************************)
(* ast.rs: the accessors the routines chain with and_then.                 *)
(***************************************************************************)
as_quote(val) == IF val.k = "Quote" THEN Some(val.v) ELSE None
as_list(e)    == IF e.t = "List" THEN Some(e.v) ELSE None
as_atom(e)    == IF e.t # "List" THEN Some(e) ELSE None
as_ident(a)   == IF a.t = "Ident" THEN Some(a.v) ELSE None

\* name.as_quote().and_then(SExpr::as_atom).and_then(Atom::as_ident)
quoted_ident(val) ==
    IF   as_quote(val) # None
      /\ as_atom(as_quote(val)[1]) # None
      /\ as_ident(as_atom(as_quote(val)[1])[1]) # None
    THEN Some(val.v.v)
    ELSE None

\* args.as_quote().and_then(SExpr::as_list)
quoted_list(val) ==
    IF as_quote(val) # None /\ as_list(as_quote(val)[1]) # None
    THEN Some(val.v.v)
    ELSE None

\* The index of the first element of `args` that is no identifier, or 0.
RECURSIVE first_non_ident(_, _)
first_non_ident(args, i) ==
    IF i > Len(args) THEN 0
    ELSE IF as_atom(args[i]) = None \/ as_ident(as_atom(args[i])[1]) = None THEN i
    ELSE first_non_ident(args, i + 1)

arg_names_of(args) == [i \in 1..Len(args) |-> args[i].v]

\* if_impl: the condition is the static FALSE or the static NIL itself.
is_false_or_nil(cond) ==
    /\ cond.ref = "Borrowed"
    /\ cond.ptr = false_ref.ptr \/ cond.ptr = nil_ref.ptr

\* eq: the match on (lhs.deref(), rhs.deref()).
eq_values(lhs, rhs) ==
    IF lhs.k = "String" /\ rhs.k = "String" THEN lhs.v = rhs.v
    ELSE IF lhs.k = "Number" /\ rhs.k = "Number" THEN f64_eq(lhs.v, rhs.v)
    ELSE IF lhs.k = "Quote" /\ rhs.k = "Quote" THEN lhs.v = rhs.v
    ELSE IF lhs.k = "Function" /\ rhs.k = "Function" THEN lhs.ptr = rhs.ptr
    ELSE FALSE

\* values[1..]
operands(values) == SubSeq(values, 2, Len(values))

\* split_off that copies the tail and leaves it on the stack
split_off_copy(s, n) ==
    [kept |-> s, args |-> SubSeq(s, Len(s) - n + 1, Len(s))]

\* env.stack.split_off(env.stack.len() - func.arity())
split_off(s, n) ==
    [kept |-> SubSeq(s, 1, Len(s) - n), args |-> SubSeq(s, Len(s) - n + 1, Len(s))]

\* the zip taken against the operands in reverse
RECURSIVE bind_all_rev(_, _, _, _)
bind_all_rev(vs, names, args, i) ==
    IF i > Len(names) \/ i > Len(args) THEN vs
    ELSE bind_all_rev(bind_var(vs, names[i], args[Len(args) + 1 - i]),
                      names, args, i + 1)

\* for (name, val) in arg_names.iter().zip(args) { env.bind_var(name, val) }
RECURSIVE bind_all(_, _, _, _)
bind_all(vs, names, args, i) ==
    IF i > Len(names) \/ i > Len(args) THEN vs
    ELSE bind_all(bind_var(vs, names[i], args[i]), names, args, i + 1)

\* for name in arg_names.iter() { env.unbind_var(name)?; }
RECURSIVE unbind_all(_, _, _)
unbind_all(vs, names, i) ==
    IF i > Len(names) THEN [ok |-> TRUE, vs |-> vs]
    ELSE LET r == unbind_var(vs, names[i])
         IN  IF r.ok THEN unbind_all(r.vs, names, i + 1) ELSE r

(***************************************************************************)
(* The programs.  main evaluates the forms the reader returned; the model  *)
(* draws each top-level form from Forms, a pool built from the generators  *)
(* below.  Ap(h, <<a, b>>) is the tree of the source text (h a b), Sym(s)   *)
(* of 's.                                                                  *)
(***************************************************************************)
Ap(h, args) == List(<<h>> \o args)
Sym(s)      == Quote(Ident(s))
QList(es)   == Quote(List(es))

FnSub   == Ap(Ident("fn"), <<QList(<<Ident("a"), Ident("b")>>),
                             Quote(Ap(Ident("-"), <<Ident("a"), Ident("b")>>))>>)
FnAdd   == Ap(Ident("fn"), <<QList(<<Ident("a"), Ident("b")>>),
                             Quote(Ap(Ident("+"), <<Ident("a"), Ident("b")>>))>>)
FnOne   == Ap(Ident("fn"), <<QList(<<>>), Quote(NumLit(1))>>)
FnId    == Ap(Ident("fn"), <<QList(<<Ident("a")>>), Quote(Ident("a"))>>)
\* (fn (a b) (+ a b)): the parameter list and the body not quoted
FnBare  == Ap(Ident("fn"), <<Ap(Ident("a"), <<Ident("b")>>),
                             Ap(Ident("+"), <<Ident("a"), Ident("b")>>)>>)
Fn1(body) == Ap(Ident("fn"), <<QList(<<Ident("a")>>), Quote(body)>>)

NaNExpr == Ap(Ident("/"), <<NumLit(0), NumLit(0)>>)
Eq12    == Ap(Ident("eq"), <<NumLit(1), NumLit(2)>>)
Eq11    == Ap(Ident("eq"), <<NumLit(1), NumLit(1)>>)
Print1  == Ap(Ident("print"), <<NumLit(1)>>)
Cons12  == Ap(Ident("cons"), <<Quote(NumLit(1)), QList(<<NumLit(2)>>)>>)
ConsBare == Ap(Ident("cons"), <<NumLit(1), NumLit(2)>>)

LetX5   == Ap(Ident("let"), <<Sym("x"), NumLit(5)>>)
LetBare == Ap(Ident("let"), <<Ident("x"), NumLit(5)>>)
PlusX1  == Ap(Ident("+"), <<Ident("x"), NumLit(1)>>)
CallSub53   == Ap(FnSub, <<NumLit(5), NumLit(3)>>)
CallAdd23   == Ap(FnAdd, <<NumLit(2), NumLit(3)>>)
CallBare23  == Ap(FnBare, <<NumLit(2), NumLit(3)>>)
IfNilBare   == Ap(Ident("if"), <<Ident("nil"), Sym("yes"), Sym("no")>>)
IfTBare     == Ap(Ident("if"), <<Ident("t"), Sym("yes"), Sym("no")>>)

AtomForms ==
    { Ident("x"), Ident("a"), Ident("y"), NumLit(5), StrLit("s"), Sym("x"),
      List(<<>>) }

\* every head with no, one, two and three operands
ArityHeads ==
    { Ident("car"), Ident("+"), Ident("print"), Ident("if"), Ident("f"),
      FnId, FnOne, NumLit(1), StrLit("s"), Sym("x"), Ident("x") }
ArityForms ==
    { Ap(h, [i \in 1..n |-> NumLit(1)]) : h \in ArityHeads, n \in 0..3 }

EqOperands ==
    { NumLit(1), NumLit(2), StrLit("s"), StrLit("t"), Sym("x"), Sym("nil"),
      QList(<<NumLit(1)>>), Ident("car"), Ident("f"), FnOne, NaNExpr, Print1 }
EqForms ==
    { Ap(Ident("eq"), <<a, b>>) : a, b \in EqOperands }
      \cup { Ap(Ident("="), <<NumLit(1), NumLit(1)>>),
             Ap(Ident("eq"), <<Ident("eq"), Ident("=")>>) }

LetForms ==
    { LetX5, LetBare,
      Ap(Ident("let"), <<NumLit(5), NumLit(5)>>),
      Ap(Ident("let"), <<StrLit("s"), NumLit(1)>>),
      Ap(Ident("let"), <<QList(<<Ident("x")>>), NumLit(1)>>),
      Ap(Ident("let"), <<Sym("a"), NumLit(9)>>),
      Ap(Ident("let"), <<Sym("x"), NaNExpr>>),
      Ap(Ident("let"), <<Sym("f"), FnSub>>),
      Ap(Ident("let"), <<Sym("g"), Ap(Ident("fn"), <<QList(<<>>),
                                      Quote(Ap(Ident("g"), <<>>))>>)>>),
      Ap(Ident("let"), <<Sym("car"), NumLit(1)>>) }

FnForms ==
    { FnSub, FnOne, FnBare,
      Ap(Ident("fn"), <<QList(<<Ident("a"), NumLit(1)>>), Sym("a")>>),
      Ap(Ident("fn"), <<QList(<<List(<<Ident("a")>>)>>), Sym("a")>>),
      Ap(Ident("fn"), <<Sym("a"), Sym("a")>>),
      Ap(Ident("fn"), <<NumLit(1), NumLit(1)>>),
      Ap(Ident("fn"), <<QList(<<Ident("a")>>), NumLit(1)>>) }

CallForms ==
    { CallSub53, CallAdd23, CallBare23,
      Ap(Ident("f"), <<NumLit(5), NumLit(3)>>),
      Ap(Ident("f"), <<NumLit(3), NumLit(5)>>),
      Ap(Ident("g"), <<>>),
      Ap(FnId, <<NumLit(1)>>),
      Ap(Fn1(Ident("x")), <<NumLit(1)>>),
      Ap(Fn1(Ident("y")), <<NumLit(1)>>),
      Ap(Fn1(Ap(Ident("car"), <<Ident("a")>>)), <<NumLit(1)>>),
      Ap(Fn1(Ap(Ident("let"), <<Sym("y"), Ident("a")>>)), <<NumLit(1)>>),
      Ap(Fn1(Ap(Ident("let"), <<Sym("a"), NumLit(2)>>)), <<NumLit(1)>>),
      Ap(Fn1(Ap(FnId, <<NumLit(2)>>)), <<NumLit(1)>>),
      Ap(Fn1(Ap(Fn1(Ap(Ident("car"), <<Ident("a")>>)), <<NumLit(2)>>)), <<NumLit(1)>>),
      Ap(Ap(Ident("fn"), <<QList(<<Ident("a"), Ident("a")>>), Sym("a")>>),
         <<NumLit(1), NumLit(2)>>) }

IfConds ==
    { Ident("nil"), Ident("t"), Sym("nil"), Sym("false"), Eq12, Eq11, Print1,
      NumLit(1), Ident("x") }
IfBranches ==
    { <<Sym("yes"), Sym("no")>>,
      <<Quote(Sym("yes")), Quote(Sym("no"))>>,
      <<Quote(Ap(Ident("print"), <<StrLit("s")>>)),
        Quote(Ap(Ident("print"), <<StrLit("t")>>))>>,
      <<NumLit(1), Sym("no")>>,
      <<Sym("yes"), NumLit(2)>> }
IfForms ==
    { Ap(Ident("if"), <<c>> \o br) : c \in IfConds, br \in IfBranches }

EvalForms ==
    { Ap(Ident("eval"), <<Quote(Ap(Ident("+"), <<NumLit(1), NumLit(2)>>))>>),
      Ap(Ident("eval"), <<NumLit(1)>>),
      Ap(Ident("eval"), <<Sym("x")>>),
      Ap(Ident("eval"), <<Quote(Sym("x"))>>) }

ConsForms ==
    { Cons12, ConsBare,
      Ap(Ident("cons"), <<Quote(NumLit(1)), NumLit(2)>>),
      Ap(Ident("cons"), <<Quote(NumLit(1)), QList(<<>>)>>),
      Ap(Ident("cons"), <<QList(<<NumLit(1)>>), Sym("x")>>) }
      \cup { Ap(Ident(h), <<a>>) :
                h \in {"car", "cdr"},
                a \in { Cons12, ConsBare, NumLit(1), StrLit("s"), Ident("car"),
                        QList(<<>>), QList(<<NumLit(1), NumLit(2)>>), Sym("x") } }

ArithOperands == { NumLit(0), NumLit(3), NumLit(5), StrLit("s"), Ident("x") }
ArithForms ==
    { Ap(Ident(op), <<a, b>>) : op \in {"+", "-", "*", "/"}, a, b \in ArithOperands }
      \cup { PlusX1,
             Ap(Ident("+"), <<NumLit(1), NumLit(2)>>),
             Ap(Ident("+"), <<NumLit(1), Ap(Ident("car"), <<NumLit(5)>>)>>),
             Ap(Ident("+"), <<Ap(Ident("car"), <<NumLit(5)>>), Ident("y")>>) }

PrintForms ==
    { Print1, Ap(Ident("print"), <<Ident("x")>>),
      Ap(Ident("print"), <<Ap(Ident("print"), <<StrLit("s")>>)>>) }

Forms ==
    AtomForms \cup ArityForms \cup EqForms \cup LetForms \cup FnForms
      \cup CallForms \cup IfForms \cup EvalForms \cup ConsForms
      \cup ArithForms \cup PrintForms

(***************************************************************************)
(* main.rs: main.                                                          *)
(***************************************************************************)
\* the evaluator is handed forms, not text: no source is held
NoReader == [phase |-> "none"]

Init ==
    /\ variables = RegisterAll(EmptyMap, 1)
    /\ stack = <<>>
    /\ ctrl = Idle
    /\ kont = <<>>
    /\ cur = List(<<>>)
    /\ done = 0
    /\ main = "loop"
    /\ nextPtr = Len(Registered) + 1
    /\ output = <<>>
    /\ reader = NoReader

\* for expr in s_exprs { evaluate(&expr, &mut env)
NextForm ==
    /\ main = "loop"
    /\ ctrl.m = "idle"
    /\ done < MaxForms
    /\ \E expr \in Forms :
          /\ cur' = expr
          /\ ctrl' = Eval(expr)
    /\ done' = done + 1
    /\ UNCHANGED <<reader, variables, stack, kont, main, nextPtr, output>>

\* ... evaluate(..)?; }  with Ok: the value is dropped, the loop goes on
FormOk ==
    /\ main = "loop"
    /\ ctrl.m = "ret"
    /\ kont = <<>>
    /\ ctrl' = Idle
    /\ UNCHANGED <<reader, variables, stack, kont, cur, done, main, nextPtr, output>>

\* ... evaluate(..)?; }  with Err: main returns the error
FormErr ==
    /\ main = "loop"
    /\ ctrl.m = "err"
    /\ kont = <<>>
    /\ main' = "returned_err"
    /\ UNCHANGED <<reader, variables, stack, ctrl, kont, cur, done, nextPtr, output>>

\* the loop is over: Ok(())
EndOfInput ==
    /\ main = "loop"
    /\ ctrl.m = "idle"
    /\ main' = "returned_ok"
    /\ UNCHANGED <<reader, variables, stack, ctrl, kont, cur, done, nextPtr, output>>

(***************************************************************************)
(* evaluator.rs: evaluate.                                                 *)
(***************************************************************************)
EvalIdent ==
    /\ ctrl.m = "eval"
    /\ ctrl.x.t = "Ident"
    /\ ctrl' = IF lookup_var(variables, ctrl.x.v) # None
               THEN Ok(lookup_var(variables, ctrl.x.v)[1])
               ELSE Err(<<"name was not defined", ctrl.x.v>>)
    /\ UNCHANGED <<reader, variables, stack, kont, cur, done, main, nextPtr, output>>

EvalString ==
    /\ ctrl.m = "eval"
    /\ ctrl.x.t = "String"
    /\ ctrl' = Ok(owned("String", ctrl.x.v))
    /\ UNCHANGED <<reader, variables, stack, kont, cur, done, main, nextPtr, output>>

EvalNumber ==
    /\ ctrl.m = "eval"
    /\ ctrl.x.t = "Number"
    /\ ctrl' = Ok(owned("Number", F64(ctrl.x.v)))
    /\ UNCHANGED <<reader, variables, stack, kont, cur, done, main, nextPtr, output>>

EvalQuote ==
    /\ ctrl.m = "eval"
    /\ ctrl.x.t = "Quote"
    /\ ctrl' = Ok(owned("Quote", ctrl.x.v))
    /\ UNCHANGED <<reader, variables, stack, kont, cur, done, main, nextPtr, output>>

\* SExpr::List with no element: collect yields an empty vector, values.get(0) fails
EvalEmptyList ==
    /\ ctrl.m = "eval"
    /\ ctrl.x.t = "List"
    /\ ctrl.x.v = <<>>
    /\ ctrl' = Err(<<"expected list to have at least one element">>)
    /\ UNCHANGED <<reader, variables, stack, kont, cur, done, main, nextPtr, output>>

\* EvalList starting with the last element instead of the head
EvalList_last_first ==
    /\ ctrl.m = "eval"
    /\ ctrl.x.t = "List"
    /\ ctrl.x.v # <<>>
    /\ Len(kont) < MaxDepth
    /\ kont' = Append(kont, ListFrame(ctrl.x.v, <<>>))
    /\ ctrl' = Eval(ctrl.x.v[Len(ctrl.x.v)])
    /\ UNCHANGED <<reader, variables, stack, cur, done, main, nextPtr, output>>

\* SExpr::List: the map over the elements starts with the first one
EvalList ==
    /\ ctrl.m = "eval"
    /\ ctrl.x.t = "List"
    /\ ctrl.x.v # <<>>
    /\ Len(kont) < MaxDepth
    /\ kont' = Append(kont, ListFrame(ctrl.x.v, <<>>))
    /\ ctrl' = Eval(ctrl.x.v[1])
    /\ UNCHANGED <<reader, variables, stack, cur, done, main, nextPtr, output>>

\* an element evaluated to Ok: it joins `values`; the next one is evaluated, or
\* the collect is complete
ElementOk ==
    /\ ctrl.m = "ret"
    /\ kont # <<>>
    /\ Top(kont).k = "list"
    /\ LET fr     == Top(kont)
           values == Append(fr.values, ctrl.x)
       IN  IF Len(values) < Len(fr.elements)
           THEN /\ kont' = Append(Pop(kont), ListFrame(fr.elements, values))
                /\ ctrl' = Eval(fr.elements[Len(values) + 1])
           ELSE /\ kont' = Pop(kont)
                /\ ctrl' = Apply(values)
    /\ UNCHANGED <<reader, variables, stack, cur, done, main, nextPtr, output>>

\* an element evaluated to Err: collect::<Result<_, _>>()? returns it
ElementErr ==
    /\ ctrl.m = "err"
    /\ kont # <<>>
    /\ Top(kont).k = "list"
    /\ kont' = Pop(kont)
    /\ UNCHANGED <<reader, variables, stack, ctrl, cur, done, main, nextPtr, output>>

\* ApplyNotFunction with the operands already on the value stack when the
\* head is found to be no function.
ApplyNotFunction_pushing ==
    /\ ctrl.m = "apply"
    /\ ctrl.x[1].k # "Function"
    /\ stack' = stack \o operands(ctrl.x)
    /\ ctrl' = Err(<<"expected a function got", ctrl.x[1]>>)
    /\ UNCHANGED <<reader, variables, kont, cur, done, main, nextPtr, output>>

\* values[0] is no Value::Function
ApplyNotFunction ==
    /\ ctrl.m = "apply"
    /\ ctrl.x[1].k # "Function"
    /\ ctrl' = Err(<<"expected a function got", ctrl.x[1]>>)
    /\ UNCHANGED <<reader, variables, stack, kont, cur, done, main, nextPtr, output>>

\* ApplyArity without the comparison of the two counts: the operands are
\* pushed and the function is called whatever its arity.
ApplyArity_unchecked ==
    /\ ctrl.m = "apply"
    /\ ctrl.x[1].k = "Function"
    /\ arity(ctrl.x[1].v) # Len(operands(ctrl.x))
    /\ stack' = stack \o operands(ctrl.x)
    /\ ctrl' = Call(ctrl.x[1])
    /\ UNCHANGED <<reader, variables, kont, cur, done, main, nextPtr, output>>

\* fun.arity() != values[1..].len()
ApplyArity ==
    /\ ctrl.m = "apply"
    /\ ctrl.x[1].k = "Function"
    /\ arity(ctrl.x[1].v) # Len(operands(ctrl.x))
    /\ ctrl' = Err(<<"expected arguments, but got",
                     arity(ctrl.x[1].v), Len(operands(ctrl.x)), ctrl.x[1]>>)
    /\ UNCHANGED <<reader, variables, stack, kont, cur, done, main, nextPtr, output>>

\* ApplyPush with the last operand left off the stack
ApplyPush_short ==
    /\ ctrl.m = "apply"
    /\ ctrl.x[1].k = "Function"
    /\ arity(ctrl.x[1].v) = Len(operands(ctrl.x))
    /\ stack' = stack \o SubSeq(ctrl.x, 2, Len(ctrl.x) - 1)
    /\ ctrl' = Call(ctrl.x[1])
    /\ UNCHANGED <<reader, variables, kont, cur, done, main, nextPtr, output>>

\* env.stack.extend(values[1..].iter().cloned()); call(fun, env)
ApplyPush ==
    /\ ctrl.m = "apply"
    /\ ctrl.x[1].k = "Function"
    /\ arity(ctrl.x[1].v) = Len(operands(ctrl.x))
    /\ stack' = stack \o operands(ctrl.x)
    /\ ctrl' = Call(ctrl.x[1])
    /\ UNCHANGED <<reader, variables, kont, cur, done, main, nextPtr, output>>

(***************************************************************************)
(* evaluator.rs: call.                                                     *)
(***************************************************************************)
\* pop_stack's unwrap on an empty stack, split_off past the start: a panic
Panic ==
    /\ main' = "panicked"
    /\ ctrl' = Panicked
    /\ stack' = <<>>
    /\ UNCHANGED <<reader, variables, kont, cur, done, nextPtr, output>>

\* Function::UserDefined: the operands leave the stack and are bound, then
\* evaluate(body, env)
CallUser ==
    /\ ctrl.m = "call"
    /\ ~ctrl.x.v.lib
    /\ Len(kont) < MaxDepth
    /\ IF Len(stack) < arity(ctrl.x.v) THEN Panic
       ELSE LET fun == ctrl.x.v
                sp  == split_off(stack, arity(fun))
            IN  /\ stack' = sp.kept
                /\ variables' = bind_all(variables, fun.arg_names, sp.args, 1)
                /\ kont' = Append(kont, CallFrame(fun.arg_names, fun.body, variables))
                /\ ctrl' = Eval(fun.body)
                /\ UNCHANGED <<reader, cur, done, main, nextPtr, output>>

\* let retr = evaluate(body, env)?  with Ok: the parameters are unbound
ReturnUser ==
    /\ ctrl.m = "ret"
    /\ kont # <<>>
    /\ Top(kont).k = "call"
    /\ LET r == unbind_all(variables, Top(kont).arg_names, 1)
       IN  /\ variables' = r.vs
           /\ ctrl' = IF r.ok THEN ctrl ELSE Err(<<"variable not bound">>)
    /\ kont' = Pop(kont)
    /\ UNCHANGED <<reader, stack, cur, done, main, nextPtr, output>>

\* let retr = evaluate(body, env)?  with Err: call returns it at once
BodyErr ==
    /\ ctrl.m = "err"
    /\ kont # <<>>
    /\ Top(kont).k = "call"
    /\ kont' = Pop(kont)
    /\ UNCHANGED <<reader, variables, stack, ctrl, cur, done, main, nextPtr, output>>

\* Function::Lib { ptr, .. } => (*ptr)(env)
Calling(routine) ==
    /\ ctrl.m = "call"
    /\ ctrl.x.v.lib
    /\ ctrl.x.v.routine = routine

(***************************************************************************)
(* std_lib.rs: the native routines.  Each takes its operands with          *)
(* pop_stack, the last pushed first.  A routine that ends in               *)
(* evaluate(.., env) hands that result on unchanged, so it leaves no frame *)
(* on kont.                                                                *)
(***************************************************************************)
\* the two pops taken in the other order
let_operands_swapped(s) ==
    LET p1 == pop_stack(s)
        p2 == pop_stack(p1.rest)
    IN  [val |-> p2.val, name |-> p1.val, rest |-> p2.rest]

\* let val = env.pop_stack(); let name = env.pop_stack();
let_operands(s) ==
    LET p1 == pop_stack(s)
        p2 == pop_stack(p1.rest)
    IN  [val |-> p1.val, name |-> p2.val, rest |-> p2.rest]

let_impl ==
    /\ Calling("let_impl")
    /\ IF Len(stack) < 2 THEN Panic
       ELSE LET ops  == let_operands(stack)
                val  == ops.val
                name == ops.name
            IN  /\ stack' = ops.rest
                /\ IF quoted_ident(name) = None
                   THEN /\ ctrl' = Err(<<"expected a symbol, got", name>>)
                        /\ variables' = variables
                   ELSE /\ variables' = register_var(variables, quoted_ident(name)[1], val)
                        /\ ctrl' = Ok(val)
                /\ UNCHANGED <<reader, kont, cur, done, main, nextPtr, output>>

fn_impl ==
    /\ Calling("fn_impl")
    /\ IF Len(stack) < 2 THEN Panic
       ELSE LET p1   == pop_stack(stack)
                p2   == pop_stack(p1.rest)
                body == p1.val
                args == p2.val
            IN  /\ stack' = p2.rest
                /\ IF quoted_list(args) = None
                   THEN /\ ctrl' = Err(<<"expected arguments, got", args>>)
                        /\ nextPtr' = nextPtr
                   ELSE IF first_non_ident(quoted_list(args)[1], 1) # 0
                   THEN /\ ctrl' = Err(<<"expected argument, got",
                             quoted_list(args)[1][first_non_ident(quoted_list(args)[1], 1)]>>)
                        /\ nextPtr' = nextPtr
                   ELSE IF as_quote(body) = None
                   THEN /\ ctrl' = Err(<<"expected function body to be a list of expressions, got", body>>)
                        /\ nextPtr' = nextPtr
                   ELSE /\ ctrl' = Ok(FunctionAt(nextPtr,
                                   UserDefined(arg_names_of(quoted_list(args)[1]),
                                               as_quote(body)[1])))
                        /\ nextPtr' = nextPtr + 1
                /\ UNCHANGED <<reader, variables, kont, cur, done, main, output>>

if_impl ==
    /\ Calling("if_impl")
    /\ IF Len(stack) < 3 THEN Panic
       ELSE LET p1 == pop_stack(stack)
                p2 == pop_stack(p1.rest)
                p3 == pop_stack(p2.rest)
                else_branch == p1.val
                then_branch == p2.val
                cond        == p3.val
            IN  /\ stack' = p3.rest
                /\ ctrl' = IF as_quote(then_branch) = None
                           THEN Err(<<"expected then branch to be quoted, got", then_branch>>)
                           ELSE IF as_quote(else_branch) = None
                           THEN Err(<<"expected else branch to be quoted, got", else_branch>>)
                           ELSE IF is_false_or_nil(cond)
                           THEN Eval(as_quote(else_branch)[1])
                           ELSE Eval(as_quote(then_branch)[1])
                /\ UNCHANGED <<reader, variables, kont, cur, done, main, nextPtr, output>>

eval_impl ==
    /\ Calling("eval_impl")
    /\ IF Len(stack) < 1 THEN Panic
       ELSE LET p1   == pop_stack(stack)
                expr == p1.val
            IN  /\ stack' = p1.rest
                /\ ctrl' = IF as_quote(expr) = None
                           THEN Err(<<"expected an expression, got", expr>>)
                           ELSE Eval(as_quote(expr)[1])
                /\ UNCHANGED <<reader, variables, kont, cur, done, main, nextPtr, output>>

cons_impl ==
    /\ Calling("cons_impl")
    /\ IF Len(stack) < 2 THEN Panic
       ELSE LET p1   == pop_stack(stack)
                p2   == pop_stack(p1.rest)
                tail == p1.val
                head == p2.val
            IN  /\ stack' = p2.rest
                /\ ctrl' = IF as_quote(head) = None
                           THEN Err(<<"expected a quoted expression, got", head>>)
                           ELSE IF quoted_list(tail) = None
                           THEN Err(<<"expected a quoted expression, got", tail>>)
                           ELSE Ok(owned("Quote",
                                     List(<<as_quote(head)[1]>> \o quoted_list(tail)[1])))
                /\ UNCHANGED <<reader, variables, kont, cur, done, main, nextPtr, output>>

car_impl ==
    /\ Calling("car_impl")
    /\ IF Len(stack) < 1 THEN Panic
       ELSE LET p1   == pop_stack(stack)
                list == p1.val
            IN  /\ stack' = p1.rest
                /\ ctrl' = IF quoted_list(list) = None
                           THEN Err(<<"expected a list, got", list>>)
                           ELSE IF Len(quoted_list(list)[1]) = 0
                           THEN Err(<<"expected non empty list">>)
                           ELSE Ok(owned("Quote", quoted_list(list)[1][1]))
                /\ UNCHANGED <<reader, variables, kont, cur, done, main, nextPtr, output>>

cdr_impl ==
    /\ Calling("cdr_impl")
    /\ IF Len(stack) < 1 THEN Panic
       ELSE LET p1   == pop_stack(stack)
                list == p1.val
            IN  /\ stack' = p1.rest
                /\ ctrl' = IF quoted_list(list) = None
                           THEN Err(<<"expected a list, got", list>>)
                           ELSE IF Len(quoted_list(list)[1]) = 0
                           THEN Err(<<"expected non empty list">>)
                           ELSE Ok(owned("Quote", List(Tail(quoted_list(list)[1]))))
                /\ UNCHANGED <<reader, variables, kont, cur, done, main, nextPtr, output>>

eq ==
    /\ Calling("eq")
    /\ IF Len(stack) < 2 THEN Panic
       ELSE LET p1  == pop_stack(stack)
                p2  == pop_stack(p1.rest)
                rhs == p1.val
                lhs == p2.val
            IN  /\ stack' = p2.rest
                /\ ctrl' = Ok(bool_into(eq_values(lhs, rhs)))
                /\ UNCHANGED <<reader, variables, kont, cur, done, main, nextPtr, output>>

\* rhs $op lhs
bin_op_swapped(routine, lhs, rhs) ==
    CASE routine = "sub" -> f64_sub(rhs, lhs)
      [] routine = "add" -> f64_add(rhs, lhs)
      [] routine = "mul" -> f64_mul(rhs, lhs)
      [] routine = "div" -> f64_div(rhs, lhs)

\* impl_bin_op: lhs $op rhs
bin_op(routine, lhs, rhs) ==
    CASE routine = "sub" -> f64_sub(lhs, rhs)
      [] routine = "add" -> f64_add(lhs, rhs)
      [] routine = "mul" -> f64_mul(lhs, rhs)
      [] routine = "div" -> f64_div(lhs, rhs)

\* impl_bin_op! { @once pub fn $name => $op }
impl_bin_op(routine) ==
    /\ Calling(routine)
    /\ IF Len(stack) < 2 THEN Panic
       ELSE LET p1  == pop_stack(stack)
                p2  == pop_stack(p1.rest)
                rhs == p1.val
                lhs == p2.val
            IN  /\ stack' = p2.rest
                /\ ctrl' = IF lhs.k = "Number" /\ rhs.k = "Number"
                           THEN Ok(owned("Number", bin_op(routine, lhs.v, rhs.v)))
                           ELSE Err(<<"expected two numbers in operation", routine, lhs.k, rhs.k>>)
                /\ UNCHANGED <<reader, variables, kont, cur, done, main, nextPtr, output>>

sub == impl_bin_op("sub")
add == impl_bin_op("add")
mul == impl_bin_op("mul")
div == impl_bin_op("div")

\* println!("{}", env.pop_stack()): `output` holds the values displayed
print_impl ==
    /\ Calling("print_impl")
    /\ IF Len(stack) < 1 THEN Panic /\ output' = output
       ELSE LET p1 == pop_stack(stack)
            IN  /\ stack' = p1.rest
                /\ output' = Append(output, p1.val)
                /\ ctrl' = Ok(reference(nil_ref))
                /\ UNCHANGED <<reader, variables, kont, cur, done, main, nextPtr>>

Next ==
    \/ NextForm \/ FormOk \/ FormErr \/ EndOfInput
    \/ EvalIdent \/ EvalString \/ EvalNumber \/ EvalQuote
    \/ EvalEmptyList \/ EvalList \/ ElementOk \/ ElementErr
    \/ ApplyNotFunction \/ ApplyArity \/ ApplyPush
    \/ CallUser \/ ReturnUser \/ BodyErr
    \/ let_impl \/ fn_impl \/ if_impl \/ eval_impl
    \/ cons_impl \/ car_impl \/ cdr_impl \/ eq
    \/ sub \/ add \/ mul \/ div \/ print_impl

Spec == Init /\ [][Next]_vars

(***************************************************************************)
(* Properties.                                                             *)
(***************************************************************************)
\* evaluate(&expr, &mut env) has returned to main
FormFinished == kont = <<>> /\ ctrl.m \in {"ret", "err"}

\* the application at hand has its head and operands evaluated, the head is a
\* Function and the operand count differs from the function's arity
ArityMismatch ==
    /\ ctrl.m = "apply"
    /\ ctrl.x[1].k = "Function"
    /\ arity(ctrl.x[1].v) # Len(ctrl.x) - 1

IsArityError(c) ==
    /\ c.m = "err"
    /\ c.x[1] = "expected arguments, but got"

\* C1: an application of a Function (Lib or UserDefined) of arity A to N # A
\* operands fails with the arity error citing A and N; the step pushes nothing,
\* binds nothing, prints nothing and enters no routine or body, and while the
\* error is returned up to main nothing else does either.
C1_ArityMismatchFails ==
    [][ /\ ArityMismatch =>
            /\ IsArityError(ctrl')
            /\ ctrl'.x[2] = arity(ctrl.x[1].v)
            /\ ctrl'.x[3] = Len(ctrl.x) - 1
            /\ ctrl'.x[4] = ctrl.x[1]
            /\ UNCHANGED <<variables, stack, kont, nextPtr, output>>
        /\ IsArityError(ctrl) =>
            /\ ctrl' = ctrl
            /\ UNCHANGED <<variables, stack, nextPtr, output>>
      ]_vars

\* C1 witness: a user-defined function met an operand count that is not its
\* arity, inside an enclosing evaluation, after an earlier form bound a name
C1_Witness ==
    /\ IsArityError(ctrl)
    /\ ~ctrl.x[4].v.lib
    /\ ctrl.x[2] = 2
    /\ ctrl.x[3] = 1
    /\ stack = <<>>
    /\ done = 2

\* C4: when the evaluation of a top-level form has finished, with a value or
\* with an error of any kind, and between two forms, the value stack is empty.
C4_StackEmptyAfterForm ==
    (FormFinished \/ ctrl.m = "idle" \/ main # "loop") => stack = <<>>

\* C4 witness: a form has finished with the error of a call nested in a
\* user-defined body
C4_Witness ==
    /\ FormFinished
    /\ ctrl.m = "err"
    /\ ctrl.x[1] = "expected a list, got"
    /\ cur = Ap(Fn1(Ap(Fn1(Ap(Ident("car"), <<Ident("a")>>)), <<NumLit(2)>>)), <<NumLit(1)>>)
    /\ stack = <<>>

\* C5: the caller pushes exactly as many values as the function's arity, and
\* the callee, native or user-defined, on its success path and on each of its
\* error paths, takes exactly those values off again and nothing below them.
C5_CallBalanced ==
    [][ /\ (ctrl.m = "apply" /\ ctrl'.m = "call") =>
            /\ Len(stack') = Len(stack) + arity(ctrl'.x.v)
            /\ SubSeq(stack', 1, Len(stack)) = stack
        /\ ctrl.m = "call" =>
            /\ ctrl'.m \in {"ret", "err", "eval"}
            /\ Len(stack) >= arity(ctrl.x.v)
            /\ stack' = SubSeq(stack, 1, Len(stack) - arity(ctrl.x.v))
      ]_vars

\* C5 witness: `if` has taken its three operands and failed on a branch that
\* is not quoted
C5_Witness ==
    /\ ctrl.m = "err"
    /\ ctrl.x[1] = "expected else branch to be quoted, got"
    /\ stack = <<>>

\* call is about to return to its caller: the body's evaluation has ended,
\* with a value or with an error
CallReturning ==
    /\ kont # <<>>
    /\ Top(kont).k = "call"
    /\ ctrl.m \in {"ret", "err"}

\* C2: when a user-defined call returns, with the body's value or with its
\* error, every parameter name looks up to what it did right before the call.
C2_ParametersRemoved ==
    [][ CallReturning =>
            \A i \in 1..Len(Top(kont).arg_names) :
                lookup_var(variables', Top(kont).arg_names[i])
                    = lookup_var(Top(kont).saved, Top(kont).arg_names[i])
      ]_vars

\* the body of the returning call is an application of `let`
LetBody ==
    /\ Top(kont).body.t = "List"
    /\ Top(kont).body.v # <<>>
    /\ Top(kont).body.v[1] = Ident("let")

\* C3: when a user-defined call whose body is a `let` returns, with a value or
\* with an error, every name looks up to what it did right before the call.
C3_LetInBodyInvisible ==
    [][ (CallReturning /\ LetBody) =>
            \A n \in DOMAIN variables' \cup DOMAIN Top(kont).saved :
                lookup_var(variables', n) = lookup_var(Top(kont).saved, n)
      ]_vars

\* `if` is entered with its three operands on the stack
IfStep ==
    /\ ctrl.m = "call"
    /\ ctrl.x.v.lib
    /\ ctrl.x.v.routine = "if_impl"
    /\ Len(stack) >= 3

\* the value is Nil or the false sentinel, whatever produced it
IsNilOrFalse(val) ==
    /\ val.k = "Quote"
    /\ val.v \in {Ident("nil"), Ident("false")}

SymbolValue(s) == owned("Quote", Ident(s))

\* C6: `if` with two quoted branches goes on to evaluate the third operand,
\* and only it, when the condition is Nil or the false sentinel, and the
\* second, and only it, for every other condition; (if nil 'yes 'no) yields
\* the symbol no and (if t 'yes 'no) the symbol yes.
C6_IfSelectsBranch ==
    [][ /\ ( /\ IfStep
             /\ stack[Len(stack) - 1].k = "Quote"
             /\ stack[Len(stack)].k = "Quote" ) =>
            ctrl' = IF IsNilOrFalse(stack[Len(stack) - 2])
                    THEN Eval(stack[Len(stack)].v)
                    ELSE Eval(stack[Len(stack) - 1].v)
        /\ (FormFinished /\ cur = IfNilBare) => ctrl = Ok(SymbolValue("no"))
        /\ (FormFinished /\ cur = IfTBare) => ctrl = Ok(SymbolValue("yes"))
      ]_vars

\* a user-defined call is entered with its operands on the stack
CallUserStep ==
    /\ ctrl.m = "call"
    /\ ~ctrl.x.v.lib
    /\ Len(stack) >= Len(ctrl.x.v.arg_names)

\* the i-th of the operands the caller pushed for the call being entered
Operand(i) == stack[Len(stack) - arity(ctrl.x.v) + i]

\* no later parameter has the name of the i-th
LastOfItsName(names, i) == \A j \in (i + 1)..Len(names) : names[j] # names[i]

InSeq(x, seq) == \E i \in 1..Len(seq) : seq[i] = x

\* C9: a name bound for a call looks up to the value bound; when the call is
\* over, with a value or an error, it looks up to what it did before; the
\* bindings of other names are not touched; evaluating an identifier that has
\* no binding is an error naming it that changes neither bindings nor stack.
C9_LookupInnermost ==
    [][ /\ CallUserStep =>
            /\ \A i \in 1..Len(ctrl.x.v.arg_names) :
                  LastOfItsName(ctrl.x.v.arg_names, i) =>
                    lookup_var(variables', ctrl.x.v.arg_names[i]) = Some(Operand(i))
            /\ \A n \in DOMAIN variables :
                  ~InSeq(n, ctrl.x.v.arg_names) =>
                    (n \in DOMAIN variables' /\ variables'[n] = variables[n])
        /\ CallReturning =>
            /\ \A i \in 1..Len(Top(kont).arg_names) :
                  lookup_var(variables', Top(kont).arg_names[i])
                      = lookup_var(Top(kont).saved, Top(kont).arg_names[i])
            /\ \A n \in DOMAIN variables :
                  ~InSeq(n, Top(kont).arg_names) =>
                    (n \in DOMAIN variables' /\ variables'[n] = variables[n])
        /\ ( /\ ctrl.m = "eval"
             /\ ctrl.x.t = "Ident"
             /\ ctrl.x.v \notin DOMAIN variables ) =>
            /\ ctrl'.m = "err"
            /\ ctrl'.x[2] = ctrl.x.v
            /\ UNCHANGED <<variables, stack>>
      ]_vars

\* `eq` is entered with its two operands on the stack
EqStep ==
    /\ ctrl.m = "call"
    /\ ctrl.x.v.lib
    /\ ctrl.x.v.routine = "eq"
    /\ Len(stack) >= 2

\* the two are one Number, one String or one Quote
SameValue(lhs, rhs) ==
    /\ lhs.k = rhs.k
    /\ lhs.k \in {"Number", "String", "Quote"}
    /\ lhs.v = rhs.v

\* C10: eq answers true for a Number, a String or a Quote compared with
\* itself, the same for (a, b) as for (b, a), false for two values of
\* different kinds, true for a function compared with itself and false for
\* two functions that come from two evaluations of `fn`.
C10_EqLaws ==
    [][ EqStep =>
          LET lhs == stack[Len(stack) - 1]
              rhs == stack[Len(stack)]
          IN  /\ ctrl'.m = "ret"
              /\ SameValue(lhs, rhs) => ctrl'.x = TRUE_VAL
              /\ eq_values(lhs, rhs) = eq_values(rhs, lhs)
              /\ lhs.k # rhs.k => ctrl'.x = FALSE_VAL
              /\ (lhs.k = "Function" /\ rhs.k = "Function") =>
                    ctrl'.x = IF lhs.ptr = rhs.ptr THEN TRUE_VAL ELSE FALSE_VAL
      ]_vars

\* `let` is entered with its two operands on the stack
LetStep ==
    /\ ctrl.m = "call"
    /\ ctrl.x.v.lib
    /\ ctrl.x.v.routine = "let_impl"
    /\ Len(stack) >= 2

NumberValue(n) == owned("Number", F64(n))

\* what one `let` does with the operands name and val
LetLaw(name, val) ==
    IF name.k = "Quote" /\ name.v.t = "Ident"
    THEN /\ ctrl' = Ok(val)
         /\ lookup_var(variables', name.v.v) = Some(val)
         /\ DOMAIN variables' = DOMAIN variables \cup {name.v.v}
         /\ \A m \in DOMAIN variables \ {name.v.v} : variables'[m] = variables[m]
    ELSE /\ ctrl'.m = "err"
         /\ variables' = variables

\* C7 as stated: the symbol is written bare, (let x 5) yields 5 and binds x.
C7_LetBareSymbol ==
    [][ /\ LetStep => LetLaw(stack[Len(stack) - 1], stack[Len(stack)])
        /\ (FormFinished /\ cur = LetBare) =>
              /\ ctrl = Ok(NumberValue(5))
              /\ lookup_var(variables, "x") = Some(NumberValue(5))
      ]_vars

\* C7: `let` whose first operand evaluates to a quoted symbol n and whose
\* second evaluates to v returns v and leaves n bound to v, every other name
\* as it was; (let 'x 5) yields 5 and a later top-level (+ x 1) yields 6;
\* with any other first operand `let` fails and the bindings stay as they are.
C7_LetBinds ==
    [][ /\ LetStep => LetLaw(stack[Len(stack) - 1], stack[Len(stack)])
        /\ (FormFinished /\ cur = LetX5) =>
              /\ ctrl = Ok(NumberValue(5))
              /\ lookup_var(variables, "x") = Some(NumberValue(5))
        /\ ( /\ FormFinished
             /\ cur = PlusX1
             /\ lookup_var(variables, "x") = Some(NumberValue(5)) ) =>
              ctrl = Ok(NumberValue(6))
      ]_vars

C7_Witness ==
    /\ FormFinished
    /\ cur = PlusX1
    /\ done = 2
    /\ lookup_var(variables, "x") = Some(NumberValue(5))
    /\ ctrl = Ok(NumberValue(6))

\* `fn` is entered with its two operands on the stack
FnStep ==
    /\ ctrl.m = "call"
    /\ ctrl.x.v.lib
    /\ ctrl.x.v.routine = "fn_impl"
    /\ Len(stack) >= 2

\* a quoted list of identifiers and a quoted body
WellFormedFn(args, body) ==
    /\ args.k = "Quote"
    /\ args.v.t = "List"
    /\ \A i \in 1..Len(args.v.v) : args.v.v[i].t = "Ident"
    /\ body.k = "Quote"

\* what one `fn` does with the operands args and body
FnLaw(args, body) ==
    IF WellFormedFn(args, body)
    THEN /\ ctrl'.m = "ret"
         /\ ctrl'.x.k = "Function"
         /\ ~ctrl'.x.v.lib
         /\ arity(ctrl'.x.v) = Len(args.v.v)
         /\ \A i \in 1..Len(args.v.v) : ctrl'.x.v.arg_names[i] = args.v.v[i].v
         /\ ctrl'.x.v.body = body.v
    ELSE ctrl'.m = "err"

\* what entering and leaving a user-defined call does
UserCallLaw ==
    /\ CallUserStep =>
          /\ \A i \in 1..arity(ctrl.x.v) :
                LastOfItsName(ctrl.x.v.arg_names, i) =>
                  lookup_var(variables', ctrl.x.v.arg_names[i]) = Some(Operand(i))
          /\ ctrl' = Eval(ctrl.x.v.body)
    /\ (CallReturning /\ ctrl.m = "ret") => ctrl' = ctrl

\* C8 as stated: the parameter list and the body are written bare,
\* ((fn (a b) (+ a b)) 2 3) yields 5.
C8_FnBareOperands ==
    [][ /\ FnStep => FnLaw(stack[Len(stack) - 1], stack[Len(stack)])
        /\ UserCallLaw
        /\ (FormFinished /\ cur = CallBare23) => ctrl = Ok(NumberValue(5))
      ]_vars

\* C8: `fn` on a quoted list of k identifiers and a quoted body yields a
\* UserDefined function of arity k with those names in order and that body,
\* and fails on anything else; a call binds the i-th parameter to the i-th
\* operand pushed, evaluates the body and returns its result;
\* ((fn '(a b) '(+ a b)) 2 3) yields 5 and ((fn '(a b) '(- a b)) 5 3) yields 2.
C8_FnBuildsAndBinds ==
    [][ /\ FnStep => FnLaw(stack[Len(stack) - 1], stack[Len(stack)])
        /\ UserCallLaw
        /\ (FormFinished /\ cur = CallAdd23) => ctrl = Ok(NumberValue(5))
        /\ (FormFinished /\ cur = CallSub53) => ctrl = Ok(NumberValue(2))
      ]_vars

C8_Witness ==
    /\ FormFinished
    /\ cur = CallSub53
    /\ ctrl = Ok(NumberValue(2))
    /\ stack = <<>>

\* the two operands of one eq are equal: one kind, and by value for a Number,
\* by content for a String, by structure for a Quote, by allocation for a
\* Function
EqualOperands(lhs, rhs) ==
    /\ lhs.k = rhs.k
    /\ CASE lhs.k = "Number"   -> f64_eq(lhs.v, rhs.v)
         [] lhs.k = "Function" -> lhs.ptr = rhs.ptr
         [] OTHER              -> lhs.v = rhs.v

\* C11 as stated: eq never fails and answers the true static for equal
\* operands and Nil for unequal ones.
C11_EqTrueOrNil ==
    [][ EqStep =>
          /\ ctrl'.m = "ret"
          /\ ctrl'.x = IF EqualOperands(stack[Len(stack) - 1], stack[Len(stack)])
                       THEN TRUE_VAL ELSE NIL_VAL
      ]_vars

\* C11: eq never fails and answers one of exactly two values: the true static
\* for equal operands and the false static, never Nil, for unequal ones.
C11_EqTrueOrFalse ==
    [][ EqStep =>
          /\ ctrl'.m = "ret"
          /\ ctrl'.x \in {TRUE_VAL, FALSE_VAL}
          /\ ctrl'.x # NIL_VAL
          /\ ctrl'.x = IF EqualOperands(stack[Len(stack) - 1], stack[Len(stack)])
                       THEN TRUE_VAL ELSE FALSE_VAL
      ]_vars

C11_Witness ==
    /\ FormFinished
    /\ cur = Ap(Ident("eq"), <<NumLit(1), NumLit(2)>>)
    /\ ctrl = Ok(FALSE_VAL)

\* a library routine of one or two operands is entered with them on the stack
LibStep(routine, n) ==
    /\ ctrl.m = "call"
    /\ ctrl.x.v.lib
    /\ ctrl.x.v.routine = routine
    /\ Len(stack) >= n

\* a value that is not a Cons: a number, a string, a function, the empty list
NotACons(val) ==
    \/ val.k \in {"Number", "String", "Function"}
    \/ val.k = "Quote" /\ val.v = List(<<>>)

\* C12: cons of any two values succeeds, (car (cons 1 2)) is Number 1 and
\* (cdr (cons 1 2)) is Number 2; car and cdr of a value that is not a Cons
\* fail.
C12_CarCdrOfCons ==
    [][ /\ LibStep("cons_impl", 2) => ctrl'.m = "ret"
        /\ (FormFinished /\ cur = Ap(Ident("car"), <<ConsBare>>)) =>
              ctrl = Ok(NumberValue(1))
        /\ (FormFinished /\ cur = Ap(Ident("cdr"), <<ConsBare>>)) =>
              ctrl = Ok(NumberValue(2))
        /\ ( /\ LibStep("car_impl", 1) \/ LibStep("cdr_impl", 1)
             /\ NotACons(stack[Len(stack)]) ) => ctrl'.m = "err"
      ]_vars

\* one of + - * / is entered with its two operands on the stack
ArithStep ==
    /\ ctrl.m = "call"
    /\ ctrl.x.v.lib
    /\ ctrl.x.v.routine \in {"add", "sub", "mul", "div"}
    /\ Len(stack) >= 2

\* the signed numerator of a finite double
Num(x) == x.s * x.n

\* r is x op y, for finite x and y (and y not zero in a division), stated by
\* cross-multiplication
IsResultOf(op, r, x, y) ==
    /\ r.d # 0
    /\ CASE op = "add" -> Num(r) * x.d * y.d = (Num(x) * y.d + Num(y) * x.d) * r.d
         [] op = "sub" -> Num(r) * x.d * y.d = (Num(x) * y.d - Num(y) * x.d) * r.d
         [] op = "mul" -> Num(r) * x.d * y.d = Num(x) * Num(y) * r.d
         [] op = "div" -> Num(r) * x.d * Num(y) = Num(x) * y.d * r.d

\* C13: each of + - * / on two Numbers x (pushed first) and y (pushed second)
\* returns the Number x op y, so (- 5 3) is 2 and (+ 1 2) is 3; with an
\* operand that is not a Number it fails and returns no value.
C13_ArithInOrder ==
    [][ /\ ArithStep =>
            LET lhs == stack[Len(stack) - 1]
                rhs == stack[Len(stack)]
            IN  IF lhs.k = "Number" /\ rhs.k = "Number"
                THEN /\ ctrl'.m = "ret"
                     /\ ctrl'.x.k = "Number"
                     /\ ( /\ lhs.v.d # 0
                          /\ rhs.v.d # 0
                          /\ ctrl.x.v.routine = "div" => rhs.v.n # 0 ) =>
                           IsResultOf(ctrl.x.v.routine, ctrl'.x.v, lhs.v, rhs.v)
                ELSE ctrl'.m = "err"
        /\ (FormFinished /\ cur = Ap(Ident("-"), <<NumLit(5), NumLit(3)>>)) =>
              ctrl = Ok(NumberValue(2))
        /\ (FormFinished /\ cur = Ap(Ident("+"), <<NumLit(1), NumLit(2)>>)) =>
              ctrl = Ok(NumberValue(3))
      ]_vars

C13_Witness ==
    /\ FormFinished
    /\ cur = Ap(Ident("-"), <<NumLit(5), NumLit(3)>>)
    /\ ctrl = Ok(NumberValue(2))
    /\ stack = <<>>

(***************************************************************************)
(* reader.rs.  A text is a sequence of characters, each a string of length *)
(* one.  ParenChars is [slice, level, in_str, in_escape]; its field `next` *)
(* is always the first character of slice (with_level, next and merge all  *)
(* set it so) and is computed from it.                                     *)
(***************************************************************************)
MaxSrcLen == 4   \* characters of a source text

DQ == "\""
BS == "\\"
NL == "\n"
NUL == "NUL"

IDENT_CHARS == {"_", "+", "-", "/", "*", "=", "?"}

is_whitespace(c) == c \in {" ", NL}
is_digit(c) == c \in {"0", "1", "2", "3", "4", "5", "6", "7", "8", "9"}
is_alphabetic(c) == c \in {"a", "b", "n", "r", "s", "x", "y"}
is_alphanumeric(c) == is_alphabetic(c) \/ is_digit(c)

\* ParenChars::new / with_level
ParenChars_new(s) == [slice |-> s, level |-> 0, in_str |-> FALSE, in_escape |-> FALSE]

\* the field `next`
ParenChars_next_field(pc) == IF pc.slice = <<>> THEN None ELSE Some(Head(pc.slice))

\* ParenChars::peek
ParenChars_peek(pc) ==
    IF ParenChars_next_field(pc) = Some(")") /\ pc.level = 0 /\ ~pc.in_str
    THEN None
    ELSE ParenChars_next_field(pc)

\* Iterator::next for ParenChars without `if was_escape { in_escape = false }`
ParenChars_next_no_reset(pc) ==
    IF pc.slice = <<>> THEN [ret |-> None, pc |-> pc]
    ELSE LET prev == Head(pc.slice)
             toggles == prev = DQ /\ ~pc.in_escape
             in_str == IF toggles THEN ~pc.in_str ELSE pc.in_str
             in_escape == pc.in_escape \/ (~toggles /\ prev = BS)
             level == IF in_str THEN pc.level
                      ELSE IF prev = ")" THEN pc.level - 1
                      ELSE IF prev = "(" THEN pc.level + 1
                      ELSE pc.level
         IN  [ret |-> IF ~in_str /\ prev = ")" /\ level < 0 THEN None ELSE Some(prev),
              pc  |-> [slice |-> Tail(pc.slice), level |-> level,
                       in_str |-> in_str, in_escape |-> in_escape]]

\* Iterator::next for ParenChars: [ret, pc]
ParenChars_next(pc) ==
    IF pc.slice = <<>> THEN [ret |-> None, pc |-> pc]
    ELSE LET prev == Head(pc.slice)
             toggles == prev = DQ /\ ~pc.in_escape
             in_str == IF toggles THEN ~pc.in_str ELSE pc.in_str
             in_escape == IF pc.in_escape THEN FALSE
                          ELSE IF toggles THEN pc.in_escape
                          ELSE prev = BS
             level == IF in_str THEN pc.level
                      ELSE IF prev = ")" THEN pc.level - 1
                      ELSE IF prev = "(" THEN pc.level + 1
                      ELSE pc.level
         IN  [ret |-> IF ~in_str /\ prev = ")" /\ level < 0 THEN None ELSE Some(prev),
              pc  |-> [slice |-> Tail(pc.slice), level |-> level,
                       in_str |-> in_str, in_escape |-> in_escape]]

\* ParenChars::merge
ParenChars_merge(pc, other) ==
    [pc EXCEPT !.level = pc.level + other.level, !.slice = other.slice]

\* Reader is [source, chars]
Reader_new(source) == [source |-> source, chars |-> ParenChars_new(source)]

advance(rd) == [rd EXCEPT !.chars = ParenChars_next(rd.chars).pc]
peek(rd) == ParenChars_peek(rd.chars)
rest(rd) == rd.chars.slice
idx(rd) == Len(rd.source) - Len(rest(rd))
pos(rd) == idx(rd)
span_to(source, start, end) == SubSeq(source, start + 1, end)

\* Result<_, Error>: Err carries the message and the character index
ParseOk(val, rd) == [ok |-> TRUE, val |-> val, rd |-> rd]
error(rd, msg) == [ok |-> FALSE, msg |-> msg, idx |-> idx(rd), src |-> rd.source]

RECURSIVE skip_whitespace(_)
skip_whitespace(rd) ==
    IF peek(rd) # None /\ is_whitespace(peek(rd)[1])
    THEN skip_whitespace(advance(rd))
    ELSE rd

\* the while loop of the string branch: up to the closing quote or the end
RECURSIVE scan_string(_)
scan_string(rd) ==
    IF peek(rd) = None THEN rd
    ELSE IF peek(rd)[1] = BS THEN scan_string(advance(advance(rd)))
    ELSE IF peek(rd)[1] = DQ THEN rd
    ELSE scan_string(advance(rd))

\* str::replace of the two characters <<BS, c>> by r
RECURSIVE replace(_, _, _)
replace(s, c, r) ==
    IF Len(s) < 2 THEN s
    ELSE IF s[1] = BS /\ s[2] = c THEN <<r>> \o replace(SubSeq(s, 3, Len(s)), c, r)
    ELSE <<s[1]>> \o replace(Tail(s), c, r)

\* the while loop of the number branch: a '.' is not a digit and ends it
RECURSIVE scan_number(_)
scan_number(rd) ==
    IF peek(rd) # None /\ is_digit(peek(rd)[1]) THEN scan_number(advance(rd)) ELSE rd

RECURSIVE scan_ident(_)
scan_ident(rd) ==
    IF /\ peek(rd) # None
       /\ is_alphanumeric(peek(rd)[1]) \/ peek(rd)[1] \in IDENT_CHARS
    THEN scan_ident(advance(rd))
    ELSE rd

\* the ';' branch: to the end of the line, then skip_whitespace
RECURSIVE skip_comment(_)
skip_comment(rd) ==
    IF peek(rd) # None /\ peek(rd)[1] # NL THEN skip_comment(advance(rd))
    ELSE skip_whitespace(rd)


\* str::parse::<f64> of a run of digits
RECURSIVE parse_number(_, _)
parse_number(tok, acc) ==
    LET digit == CHOOSE i \in 0..9 :
                    <<"0", "1", "2", "3", "4", "5", "6", "7", "8", "9">>[i + 1] = Head(tok)
    IN  IF tok = <<>> THEN acc ELSE parse_number(Tail(tok), acc * 10 + digit)

\* the chain of Cons cells parse_sexpr builds from the forms between two
\* parentheses, as the list of those forms
list_of(sexprs) == List(sexprs)

RECURSIVE parse_atom(_)
RECURSIVE parse_sexpr(_)
RECURSIVE parse_sexprs_loop(_, _)

\* Reader::parse_atom; called with a character to look at
parse_atom(rd) ==
    LET chr == peek(rd)[1]
    IN  IF chr = DQ
        THEN LET opened == advance(rd)
                 closed == scan_string(opened)
                 raw == span_to(rd.source, pos(opened), pos(closed))
                 s == replace(replace(replace(raw, "n", NL), "r", NUL), "0", NUL)
             IN  ParseOk(StrLit(s), advance(closed))
        ELSE IF chr = "'"
        THEN LET r == parse_sexpr(advance(rd))
             IN  IF r.ok THEN ParseOk(Quote(r.val), r.rd) ELSE r
        ELSE IF is_digit(chr)
        THEN LET end == scan_number(rd)
                 tok == span_to(rd.source, pos(rd), pos(end))
             IN  ParseOk(NumLit(parse_number(tok, 0)), end)
        ELSE IF is_whitespace(chr)
        THEN error(rd, "unexpected whitespace")
        ELSE IF is_alphabetic(chr) \/ chr \in IDENT_CHARS
        THEN LET end == scan_ident(rd)
             IN  ParseOk(Ident(span_to(rd.source, pos(rd), pos(end))), end)
        ELSE error(rd, "unexpected char")

\* Reader::parse_sexprs, with the forms read so far
parse_sexprs_loop(rd0, s_exprs) ==
    LET rd == skip_whitespace(rd0)
    IN  IF peek(rd) = None THEN ParseOk(s_exprs, rd)
        ELSE LET r == parse_sexpr(rd)
             IN  IF r.ok THEN parse_sexprs_loop(r.rd, Append(s_exprs, r.val)) ELSE r

parse_sexprs(rd) == parse_sexprs_loop(rd, <<>>)

\* Reader::parse_sexpr
parse_sexpr(rd) ==
    IF peek(rd) = None THEN error(rd, "unexpected end of input")
    ELSE IF peek(rd)[1] = "("
    THEN LET opened == advance(rd)
             inner == parse_sexprs([source |-> rd.source,
                                  chars |-> ParenChars_new(rest(opened))])
         IN  IF ~inner.ok THEN inner
             ELSE LET merged == [opened EXCEPT
                                   !.chars = ParenChars_merge(opened.chars, inner.rd.chars)]
                  IN  IF peek(merged) # Some(")")
                      THEN error(merged, "expected a closing paren")
                      ELSE ParseOk(list_of(inner.val), advance(merged))
    ELSE IF peek(rd)[1] = ";"
    THEN parse_sexpr(skip_comment(rd))
    ELSE parse_atom(rd)

(***************************************************************************)
(* ast.rs: Display for SExpr and Atom, as text.                            *)
(***************************************************************************)
\* Display for f64, of a whole number
RECURSIVE display_number(_)
display_number(n) ==
    IF n < 10 THEN <<SubSeq(<<"0", "1", "2", "3", "4", "5", "6", "7", "8", "9">>, n + 1, n + 1)[1]>>
    ELSE display_number(n \div 10) \o display_number(n % 10)

RECURSIVE display(_)
RECURSIVE display_tail(_, _)

\* for el in list.iter().skip(1) { write!(f, ", {}", el) }
display_tail(list, i) ==
    IF i > Len(list) THEN <<>>
    ELSE <<",", " ">> \o display(list[i]) \o display_tail(list, i + 1)

\* Display for SExpr, Display for Atom
display(e) ==
    CASE e.t = "String" -> e.v
      [] e.t = "Number" -> display_number(e.v)
      [] e.t = "Quote"  -> display(e.v)
      [] e.t = "Ident"  -> e.v
      [] e.t = "List"   -> IF Len(e.v) = 0 THEN <<"(", ")">>
                           ELSE <<"(">> \o display(e.v[1]) \o display_tail(e.v, 2)

(***************************************************************************)
(* error.rs: Display for Error.  The text "{msg} at {line}:{col}" is the   *)
(* record [msg, line, col].                                                *)
(***************************************************************************)
\* for (i, chr) in self.src.char_indices(): i is the offset of src[i + 1]
RECURSIVE fmt_loop(_, _, _, _, _)
fmt_loop(src, char_idx, i, line, col) ==
    IF i >= Len(src) \/ i > char_idx THEN [line |-> line, col |-> col]
    ELSE IF src[i + 1] = NL THEN fmt_loop(src, char_idx, i + 1, line + 1, 1)
    ELSE fmt_loop(src, char_idx, i + 1, line, col + 1)

Error_fmt(src, char_idx, msg) ==
    LET at == fmt_loop(src, char_idx, 0, 1, 1)
    IN  [msg |-> msg, line |-> at.line, col |-> at.col]

(***************************************************************************)
(* main.rs: the source text is read and handed to Reader::parse_sexprs.    *)
(* The forms it returns are then rendered and the text read again.         *)
(***************************************************************************)
SrcAlphabet == {"(", ")", DQ, BS, "a", "1", " ", "'"}

NamedSources ==
    { <<"(", "+", " ", "1", " ", "2">>,
      <<"(", "+", " ", "1", " ", "2", ")", ")">>,
      <<"(", "+", " ", "1", " ", "2", ")">>,
      <<DQ, "a", "b", BS, DQ>>,
      <<"(", "a", " ", "(", "b", ")">>,
      <<"a", ";", "x", NL, "1", "2">>,
      <<DQ, BS, "n", DQ>>,
      <<"1", "2">>, <<"1", ".", "5">>, <<"1", "2", ".", "5">>,
      <<"1", ".", "2", ".", "3">>,
      <<"a", ";", "x">>, <<"a", " ", ";", "x">>, <<"a", ";", "x", NL, "b">>,
      <<";", "x", NL, "a">>,
      <<"(", "a", ";", "x", NL, ")">>, <<"(", "a", " ", NL, ")">>,
      <<"(", ";", "x", NL, "a", ")">>,
      <<"a", NL, "(", "b">>, <<"a", NL, BS>>, <<"'", NL>>, <<"a", NL, NL, " ", BS>> }

Sources ==
    UNION { [1..k -> SrcAlphabet] : k \in 0..MaxSrcLen } \cup NamedSources

\* what main sees of a Result: the forms, or the error
Outcome(r) ==
    IF r.ok THEN [ok |-> TRUE, val |-> r.val]
    ELSE [ok |-> FALSE, msg |-> r.msg, idx |-> r.idx,
          printed |-> Error_fmt(r.src, r.idx, r.msg)]

ReaderInit ==
    /\ variables = RegisterAll(EmptyMap, 1)
    /\ stack = <<>>
    /\ ctrl = Idle
    /\ kont = <<>>
    /\ cur = List(<<>>)
    /\ done = 0
    /\ main = "loop"
    /\ nextPtr = Len(Registered) + 1
    /\ output = <<>>
    /\ \E source \in Sources : reader = [phase |-> "new", source |-> source]

\* let mut reader = Reader::new(&contents); reader.parse_sexprs()
ReadSource ==
    /\ reader.phase = "new"
    /\ reader' = [phase |-> "parsed", source |-> reader.source,
                  parsed |-> Outcome(parse_sexprs(Reader_new(reader.source)))]
    /\ UNCHANGED <<variables, stack, ctrl, kont, cur, done, main, nextPtr, output>>

\* every form returned is rendered with Display
RenderForms ==
    /\ reader.phase = "parsed"
    /\ reader.parsed.ok
    /\ reader' = [phase |-> "rendered", source |-> reader.source,
                  parsed |-> reader.parsed,
                  rendered |-> [i \in 1..Len(reader.parsed.val) |->
                                   display(reader.parsed.val[i])]]
    /\ UNCHANGED <<variables, stack, ctrl, kont, cur, done, main, nextPtr, output>>

\* every rendered text is read again
ReparseForms ==
    /\ reader.phase = "rendered"
    /\ reader' = [phase |-> "reparsed", source |-> reader.source,
                  parsed |-> reader.parsed,
                  rendered |-> reader.rendered,
                  reparsed |-> [i \in 1..Len(reader.rendered) |->
                                   Outcome(parse_sexprs(Reader_new(reader.rendered[i])))]]
    /\ UNCHANGED <<variables, stack, ctrl, kont, cur, done, main, nextPtr, output>>

ReaderNext == ReadSource \/ RenderForms \/ ReparseForms

ReaderSpec == ReaderInit /\ [][ReaderNext]_vars

\* the source has been handed to the parser
SourceRead == reader.phase \in {"parsed", "rendered", "reparsed"}

\* a text in which every parenthesis is one: no string, escape or comment
PlainText(text) == \A i \in 1..Len(text) : text[i] \notin {DQ, BS, ";"}

\* opening minus closing parentheses among the first i characters
RECURSIVE Depth(_, _)
Depth(text, i) ==
    IF i = 0 THEN 0
    ELSE Depth(text, i - 1)
           + (IF text[i] = "(" THEN 1 ELSE IF text[i] = ")" THEN -1 ELSE 0)

UnmatchedClose(text) == \E i \in 1..Len(text) : Depth(text, i) < 0
UnmatchedOpen(text) == ~UnmatchedClose(text) /\ Depth(text, Len(text)) > 0

\* C14: a text with an unmatched '(' fails to parse, (+ 1 2 with an error at
\* the end of the input, and a text with an unmatched ')' at top level fails
\* to parse; in neither case are the forms read so far returned.
C14_UnbalancedFails ==
    (SourceRead /\ PlainText(reader.source)) =>
        /\ UnmatchedOpen(reader.source) => ~reader.parsed.ok
        /\ reader.source = <<"(", "+", " ", "1", " ", "2">> =>
              (~reader.parsed.ok /\ reader.parsed.idx = Len(reader.source))
        /\ UnmatchedClose(reader.source) => ~reader.parsed.ok

\* the string literal opened before position i is closed at or after i
RECURSIVE StringCloses(_, _)
StringCloses(text, i) ==
    IF i > Len(text) THEN FALSE
    ELSE IF text[i] = BS THEN StringCloses(text, i + 2)
    ELSE IF text[i] = DQ THEN TRUE
    ELSE StringCloses(text, i + 1)

\* the tree holds a String atom
RECURSIVE HasString(_)
HasString(e) ==
    CASE e.t = "String" -> TRUE
      [] e.t = "Quote"  -> HasString(e.v)
      [] e.t = "List"   -> \E i \in 1..Len(e.v) : HasString(e.v[i])
      [] OTHER          -> FALSE

\* C15: a text that opens a string literal and ends before its closing quote
\* (an escaped quote does not close it) fails to parse, and no String atom
\* is produced.
C15_UnterminatedStringFails ==
    ( /\ SourceRead
      /\ reader.source # <<>>
      /\ reader.source[1] = DQ
      /\ ~StringCloses(reader.source, 2) ) =>
        /\ ~reader.parsed.ok
        /\ reader.parsed.ok =>
              \A i \in 1..Len(reader.parsed.val) : ~HasString(reader.parsed.val[i])

\* two trees are structurally equal
RECURSIVE SameTree(_, _)
SameTree(a, b) ==
    /\ a.t = b.t
    /\ CASE a.t = "List"  -> /\ Len(a.v) = Len(b.v)
                             /\ \A i \in 1..Len(a.v) : SameTree(a.v[i], b.v[i])
         [] a.t = "Quote" -> SameTree(a.v, b.v)
         [] OTHER         -> a.v = b.v

\* C16: every tree the parser produced, rendered with Display and read
\* again, parses, and yields one tree structurally equal to it.
C16_RoundTrip ==
    reader.phase = "reparsed" =>
        \A i \in 1..Len(reader.parsed.val) :
            /\ reader.reparsed[i].ok
            /\ Len(reader.reparsed[i].val) = 1
            /\ SameTree(reader.reparsed[i].val[1], reader.parsed.val[i])

\* the standard-library table: name and arity
LibraryTable ==
    { <<"let", 2>>, <<"fn", 2>>, <<"letfn", 3>>, <<"if", 3>>, <<"eval", 1>>,
      <<"cons", 2>>, <<"car", 1>>, <<"cdr", 1>>, <<"eq", 2>>, <<"+", 2>>,
      <<"-", 2>>, <<"*", 2>>, <<"/", 2>>, <<"print", 1>>, <<"dbg", 1>> }

ResolvesToLib(name, n) ==
    /\ lookup_var(variables, name) # None
    /\ lookup_var(variables, name)[1].k = "Function"
    /\ lookup_var(variables, name)[1].v.lib
    /\ arity(lookup_var(variables, name)[1].v) = n

\* C17: before the first top-level form is evaluated every name of the
\* standard-library table resolves to a Lib function of the table's arity.
C17_LibraryPreSeeded ==
    (main = "loop" /\ done = 0) =>
        \A entry \in LibraryTable : ResolvesToLib(entry[1], entry[2])

\* C18: the top-level forms are taken one at a time, each after the one
\* before it has finished, against the same Environment; when a form fails
\* no further form is taken and the run ends reporting overall success.
C18_StopsAtFirstError ==
    [][ /\ done' \in {done, done + 1}
        /\ done' = done + 1 =>
              /\ ctrl.m = "idle"
              /\ kont = <<>>
              /\ UNCHANGED <<variables, stack>>
        /\ (main = "loop" /\ FormFinished /\ ctrl.m = "err") =>
              /\ main' = "returned_ok"
              /\ UNCHANGED <<done, cur, ctrl>>
        /\ main # "loop" => UNCHANGED <<main, done, cur, ctrl, variables>>
      ]_vars


\* the application at hand has its head and operands evaluated and the head is
\* no Function
HeadNotFunction ==
    /\ ctrl.m = "apply"
    /\ ctrl.x[1].k # "Function"

IsTypeError(c) ==
    /\ c.m = "err"
    /\ c.x[1] = "expected a function got"

\* C19: an application whose head evaluated to a Number, a String or a Quote
\* fails with the type error naming that value; the step pushes nothing, binds
\* nothing, prints nothing and enters no routine or body, and while the error
\* is returned up to main nothing else does either.
C19_NonFunctionHeadFails ==
    [][ /\ HeadNotFunction =>
            /\ ctrl.x[1].k \in {"Number", "String", "Quote"}
            /\ IsTypeError(ctrl')
            /\ ctrl'.x[2].k = ctrl.x[1].k
            /\ ctrl'.x[2] = ctrl.x[1]
            /\ UNCHANGED <<variables, stack, kont, nextPtr, output>>
        /\ IsTypeError(ctrl) =>
            /\ ctrl' = ctrl
            /\ UNCHANGED <<variables, stack, nextPtr, output>>
      ]_vars

\* C19 witness: a quoted symbol in head position with two operands was refused
\* and the error has reached main, after an earlier form bound a name
C19_Witness ==
    /\ FormFinished
    /\ IsTypeError(ctrl)
    /\ ctrl.x[2].k = "Quote"
    /\ cur = Ap(Sym("x"), <<NumLit(1), NumLit(1)>>)
    /\ stack = <<>>
    /\ done = 1


\* evaluate is entered on a non-empty list: an application
ListStart ==
    /\ ctrl.m = "eval"
    /\ ctrl.x.t = "List"
    /\ ctrl.x.v # <<>>

\* the innermost suspended evaluation is an application collecting its values
InList == kont # <<>> /\ Top(kont).k = "list"

\* C20 as stated: the head of an application is evaluated only after all of
\* its operands, so an application that has no value for its head yet (its
\* head is being evaluated) has no operand left to evaluate.
C20_HeadAfterOperands ==
    \A i \in 1..Len(kont) :
        (kont[i].k = "list" /\ kont[i].values = <<>>) =>
            Len(kont[i].elements) = 1

\* C20, amended: the head is evaluated first, then the operands left to right,
\* each exactly once, every value joining the earlier ones in call-site order;
\* the first error among them ends the application with that error, no later
\* element being evaluated; the function is applied only when every element
\* has a value and is called only from such an application.
C20_HeadFirstOperandsInOrder ==
    [][ /\ ListStart =>
            /\ kont' = Append(kont, ListFrame(ctrl.x.v, <<>>))
            /\ ctrl' = Eval(ctrl.x.v[1])
            /\ UNCHANGED <<variables, stack, output>>
        /\ (InList /\ ctrl.m = "ret") =>
            LET fr == Top(kont)
                n  == Len(fr.values)
            IN  /\ n < Len(fr.elements)
                /\ IF n + 1 < Len(fr.elements)
                   THEN /\ kont' = Append(Pop(kont),
                                         ListFrame(fr.elements, Append(fr.values, ctrl.x)))
                        /\ ctrl' = Eval(fr.elements[n + 2])
                   ELSE /\ kont' = Pop(kont)
                        /\ ctrl' = Apply(Append(fr.values, ctrl.x))
                /\ UNCHANGED <<variables, stack, output>>
        /\ (InList /\ ctrl.m = "err") =>
            /\ kont' = Pop(kont)
            /\ ctrl' = ctrl
            /\ UNCHANGED <<variables, stack, output>>
        /\ (ctrl'.m = "apply" /\ ctrl.m # "apply") =>
            /\ InList
            /\ ctrl.m = "ret"
            /\ Len(ctrl'.x) = Len(Top(kont).elements)
        /\ (ctrl'.m = "call" /\ ctrl.m # "call") =>
            /\ ctrl.m = "apply"
            /\ ctrl.x[1].k = "Function"
            /\ stack' = stack \o SubSeq(ctrl.x, 2, Len(ctrl.x))
      ]_vars

\* C20 witness: in (+ (car 5) y) the head was evaluated, the first operand
\* failed, and its error is the form's result: the unbound y was never looked
\* up and + was not called
C20_Witness ==
    /\ FormFinished
    /\ cur = Ap(Ident("+"), <<Ap(Ident("car"), <<NumLit(5)>>), Ident("y")>>)
    /\ ctrl.m = "err"
    /\ ctrl.x[1] = "expected a list, got"
    /\ stack = <<>>


(***************************************************************************)
(* reader.rs: ParenChars driven on its own.  The Reader reaches its        *)
(* scanner through advance and peek, hands the rest of the text to a       *)
(* sub-reader's scanner after an opening parenthesis, and merges that      *)
(* scanner back when the sub-reader has come to its end.                   *)
(***************************************************************************)
ScanSources ==
    UNION { [1..k -> {"(", ")", DQ, BS, "a"}] : k \in 0..MaxSrcLen }

\* the scanner in use: the sub-reader's while there is one
Innermost(rd) == IF rd.sub = None THEN rd.chars ELSE rd.sub[1]

ScannerInit ==
    /\ variables = RegisterAll(EmptyMap, 1)
    /\ stack = <<>>
    /\ ctrl = Idle
    /\ kont = <<>>
    /\ cur = List(<<>>)
    /\ done = 0
    /\ main = "loop"
    /\ nextPtr = Len(Registered) + 1
    /\ output = <<>>
    /\ \E source \in ScanSources :
          reader = [phase |-> "scan", source |-> source,
                    chars |-> ParenChars_new(source), sub |-> None,
                    ret |-> <<"new">>]

\* Reader::advance: self.chars.next()
ScanNext ==
    /\ reader.phase = "scan"
    /\ LET r == ParenChars_next(Innermost(reader))
       IN  reader' = [reader EXCEPT
                        !.chars = IF reader.sub = None THEN r.pc ELSE @,
                        !.sub   = IF reader.sub = None THEN None ELSE Some(r.pc),
                        !.ret   = <<"next">> \o r.ret]
    /\ UNCHANGED <<variables, stack, ctrl, kont, cur, done, main, nextPtr, output>>

\* Reader::peek: self.chars.peek()
ScanPeek ==
    /\ reader.phase = "scan"
    /\ reader' = [reader EXCEPT !.ret = <<"peek">> \o ParenChars_peek(Innermost(reader))]
    /\ UNCHANGED <<variables, stack, ctrl, kont, cur, done, main, nextPtr, output>>

\* parse_sexpr, Some('('): after the advance over it a sub-reader is made
\* with ParenChars::new(self.rest())
ScanFork ==
    /\ reader.phase = "scan"
    /\ reader.sub = None
    /\ reader.ret = <<"next", "(">>
    /\ reader' = [reader EXCEPT !.sub = Some(ParenChars_new(reader.chars.slice)),
                                !.ret = <<"new">>]
    /\ UNCHANGED <<variables, stack, ctrl, kont, cur, done, main, nextPtr, output>>

\* parse_sexpr: sub_reader.parse_sexprs() has returned Ok, which it does when
\* its peek is None; self.chars.merge(sub_reader.chars)
ScanMerge ==
    /\ reader.phase = "scan"
    /\ reader.sub # None
    /\ ParenChars_peek(reader.sub[1]) = None
    /\ reader' = [reader EXCEPT !.chars = ParenChars_merge(reader.chars, reader.sub[1]),
                                !.sub = None,
                                !.ret = <<"merge">>]
    /\ UNCHANGED <<variables, stack, ctrl, kont, cur, done, main, nextPtr, output>>

ScannerNext == ScanNext \/ ScanPeek \/ ScanFork \/ ScanMerge

ScannerSpec == ScannerInit /\ [][ScannerNext]_vars

\* a scanner is at work
Scanning == reader.phase = "scan"

\* C21: the nesting depth of a scanner is never negative, whatever sequence of
\* next, peek and merge it has been through (a next that meets an unescaped
\* ')' at depth 0 leaves the depth at 0).
C21_LevelNeverNegative ==
    Scanning =>
        /\ reader.chars.level >= 0
        /\ reader.sub # None => reader.sub[1].level >= 0


\* the text the scanner in use has gone through since it was made
Consumed(rd) ==
    IF rd.sub = None
    THEN SubSeq(rd.source, 1, Len(rd.source) - Len(rd.chars.slice))
    ELSE SubSeq(rd.chars.slice, 1, Len(rd.chars.slice) - Len(rd.sub[1].slice))

\* the scanner in use is inside a string literal and has a character ahead
InString ==
    /\ Scanning
    /\ Innermost(reader).in_str
    /\ Innermost(reader).slice # <<>>

\* C22: while the scanner is inside a string literal a next leaves the depth
\* as it is and returns the character, parentheses included, and a peek at a
\* ')' returns it; a quote after one escape character does not end the
\* string, a quote after two escape characters ends it.
C22_StringSuspendsParens ==
    [][ /\ (InString /\ reader'.ret[1] = "next") =>
            LET before == Innermost(reader)
                after  == Innermost(reader')
                prev   == Head(before.slice)
                seen   == Consumed(reader)
                n      == Len(seen)
            IN  /\ after.level = before.level
                /\ reader'.ret = <<"next", prev>>
                /\ (prev = DQ /\ n >= 2 /\ seen[n] = BS /\ seen[n - 1] # BS) =>
                       after.in_str
                /\ (prev = DQ /\ n >= 3 /\ seen[n] = BS /\ seen[n - 1] = BS
                              /\ seen[n - 2] # BS) =>
                       ~after.in_str
        /\ (InString /\ reader'.ret[1] = "peek") =>
                reader'.ret = <<"peek", Head(Innermost(reader).slice)>>
      ]_vars

\* C22 witness: in the text "\\" the scanner has gone over the opening quote
\* and the two escape characters, and the next over the last quote has ended
\* the string
C22_Witness ==
    /\ Scanning
    /\ reader.source = <<DQ, BS, BS, DQ>>
    /\ reader.chars.slice = <<>>
    /\ ~reader.chars.in_str
    /\ reader.ret = <<"next", DQ>>


\* the positions of the decimal points of a token of digits and points that
\* begins and ends with a digit and has no two points side by side
Points(text) == { i \in 1..Len(text) : text[i] = "." }
NumberToken(text, points) ==
    /\ text # <<>>
    /\ \A i \in 1..Len(text) : is_digit(text[i]) \/ text[i] = "."
    /\ is_digit(text[1])
    /\ is_digit(text[Len(text)])
    /\ \A i \in Points(text) : is_digit(text[i + 1])
    /\ Cardinality(Points(text)) = points

\* C23: a text that is one token digit+ is read as one Number atom with the
\* value of the digits, a text that is one token digit+ '.' digit+ is read as
\* one Number atom, and a text digit+ '.' digit+ '.' digit+ is a parse error.
C23_NumberTokens ==
    SourceRead =>
        /\ NumberToken(reader.source, 0) =>
               /\ reader.parsed.ok
               /\ Len(reader.parsed.val) = 1
               /\ reader.parsed.val[1].t = "Number"
               /\ reader.parsed.val[1].v = parse_number(reader.source, 0)
        /\ NumberToken(reader.source, 1) =>
               /\ reader.parsed.ok
               /\ Len(reader.parsed.val) = 1
               /\ reader.parsed.val[1].t = "Number"
        /\ NumberToken(reader.source, 2) => ~reader.parsed.ok


\* the text with every character of every comment, from its ';' up to the end
\* of its line, replaced by a space
RECURSIVE Blanked(_, _)
Blanked(text, in_comment) ==
    IF text = <<>> THEN <<>>
    ELSE IF Head(text) = NL THEN <<NL>> \o Blanked(Tail(text), FALSE)
    ELSE IF in_comment \/ Head(text) = ";" THEN <<" ">> \o Blanked(Tail(text), TRUE)
    ELSE <<Head(text)>> \o Blanked(Tail(text), FALSE)

\* a text with a comment and no string literal in it
HasComment(text) ==
    /\ \E i \in 1..Len(text) : text[i] = ";"
    /\ \A i \in 1..Len(text) : text[i] \notin {DQ, BS}

\* both succeed with equal trees, or both fail
SameOutcome(a, b) ==
    /\ a.ok = b.ok
    /\ a.ok => /\ Len(a.val) = Len(b.val)
               /\ \A i \in 1..Len(a.val) : SameTree(a.val[i], b.val[i])

\* C24: a text with comments parses as the same text with whitespace in the
\* place of each comment does: the same trees, or an error where that is an
\* error.
C24_CommentIsWhitespace ==
    (SourceRead /\ HasComment(reader.source)) =>
        SameOutcome(reader.parsed,
                    Outcome(parse_sexprs(Reader_new(Blanked(reader.source, FALSE)))))


\* the newlines before offset k of the text, as positions from 1
NewlinesBefore(text, k) == { i \in 1..k : text[i] = NL }

\* the position of the last of them, 0 when there is none
LastNewlineBefore(text, k) ==
    IF NewlinesBefore(text, k) = {} THEN 0
    ELSE CHOOSE i \in NewlinesBefore(text, k) :
            \A j \in NewlinesBefore(text, k) : j <= i

\* C25: a parse error raised at offset k is printed with its message, the
\* line 1 + the number of newlines before k and the column 1 + the number of
\* characters between the last newline before k (or the start) and k; an
\* error at offset 0 is printed at 1:1.
C25_ErrorLineCol ==
    (SourceRead /\ ~reader.parsed.ok) =>
        LET k == reader.parsed.idx
        IN  /\ reader.parsed.printed.msg = reader.parsed.msg
            /\ reader.parsed.printed.line =
                   1 + Cardinality(NewlinesBefore(reader.source, k))
            /\ reader.parsed.printed.col =
                   1 + (k - LastNewlineBefore(reader.source, k))


\* C26: no run takes a value from an empty value stack: whenever a function
\* is entered, a library routine or a user-defined one, the stack holds at
\* least as many values as its arity, which is what it removes, and neither
\* pop_stack's unwrap nor split_off ever panics.
C26_NoStackUnderflow ==
    /\ main # "panicked"
    /\ ctrl.m # "panic"
    /\ ctrl.m = "call" => Len(stack) >= arity(ctrl.x.v)

\* C26 witness: a user-defined function of one parameter is entered from the
\* body of another user-defined function, with its one operand on the stack
C26_Witness ==
    /\ ctrl.m = "call"
    /\ ~ctrl.x.v.lib
    /\ arity(ctrl.x.v) = 1
    /\ Len(stack) = 1
    /\ \E i \in 1..Len(kont) : kont[i].k = "call"

====
